---- MODULE Spec2Model ----
(***************************************************************************)
(* Order/fill lifecycle of the relayer: the placeOrder and fillOrder       *)
(* request handlers (src/src/maker-service/place-order.js and              *)
(* src/src/taker-service/fill-order.js) running concurrently against the   *)
(* stored orders, fills and invoices.                                      *)
(*                                                                         *)
(* Each handler is an async function: it runs atomically between two       *)
(* awaits, and other handlers run while it awaits.  One action models one  *)
(* segment that reads or writes shared records.  The awaits of a run of    *)
(* checks that only query the payment engine or read records no request    *)
(* changes are one action: no other handler can tell them apart.  A        *)
(* handler keeps the documents it loaded (order, refund invoices) as       *)
(* in-memory snapshots; the stored records can change under it.  The       *)
(* payment engine is an external collaborator: what it reports (paid,      *)
(* value, balance sufficient) is an input of the step that asks.           *)
(***************************************************************************)
EXTENDS Integers, Sequences, FiniteSets, TLC

\* ------------------------------------------------------------ bounds
\* Requests (placeOrder or fillOrder) admitted in one behaviour, counting those
\* that store refund invoices: a request that fails before that leaves no trace.
MaxCalls == 3
\* enqueue calls made on the message queue in one behaviour.
MaxEnqueued == 3
\* Events appended to the market's log in one behaviour.
MaxEvents == 3

\* ------------------------------------------------------------ universe
Orders == {"o1"}
Fills == {"f1", "f2"}
Owners == Orders \cup Fills
\* Request slots: at most this many handlers are in flight at once.
Calls == {1, 2}
Purposes == {"FEE", "DEPOSIT"}
Values == {1, 2}
EventTypes == {"PLACED", "CANCELLED", "FILLED"}
\* Consumers of the message queue: callers of next().
Consumers == {"k1", "k2"}
\* What is enqueued: the id of an accepted fill.
Items == Fills

\* fill.order_id: every fill is a fill of the one order.
order_id(f) == "o1"

\* A payment request is an opaque string to the relayer: the refund request a
\* caller hands in for a purpose.  Its value is what engine.getInvoiceValue
\* reports for it, an input of the step that asks.
RefundRequest(purpose) == << "refund", purpose >>
\* The value of an incoming invoice, as charged when the order or fill was created.
InvoiceValue(purpose) == IF purpose = "FEE" THEN 1 ELSE 2
\* engine.payInvoice(paymentRequest) resolves to the payment's preimage.
NoPreimage == << >>
payInvoice(paymentRequest) == << "preimage", paymentRequest >>

VARIABLES
    orderStatus,   \* Order.status as stored, per order
    fillStatus,    \* Fill status as stored, per fill ("NONE": not created yet)
    invoices,      \* stored incoming invoice records: <<owner, purpose>>
    refunds,       \* stored refund invoices per <<owner, purpose>>, in insertion order
    pendingSaves,  \* save() calls issued and not awaited: <<owner, purpose, index, preimage>>
    payments,      \* engine.payInvoice calls executed, per <<owner, purpose>>
    events,        \* market events emitted, counted per <<type, order>>
    messenger,     \* messenger keys `fill:<order>` -> fillId
    call,          \* per request slot: the handler's position and locals
    response       \* the response the last step sent, if it ended a request

vars == << orderStatus, fillStatus, invoices, refunds, pendingSaves, payments,
           events, messenger, call, response >>

persisted == << orderStatus, fillStatus, invoices, refunds, pendingSaves, payments,
                events, messenger >>

\* The in-process MessageQueue (src/src/messaging/message-queue.js).
VARIABLES
    queue,         \* this._queue
    listeners,     \* this._listeners: the resolve functions of pending next() promises,
                   \* each named by the consumer that holds the promise
    promise,       \* per consumer: the promise of its latest next() ("none": no call yet,
                   \* "pending", or the item it resolved with)
    connected,     \* per consumer: FALSE once it has gone away
    received,      \* history: the items each consumer's promises resolved with, while it
                   \* was there to see them
    delivered,     \* history: the items passed to enqueue, in call order
    dequeued       \* history: the 'dequeue' events emitted, << item, caller of dequeue >>

messaging == << queue, listeners, promise, connected, received, delivered, dequeued >>

\* The market event log and one WatchMarket stream on it (relayer.proto:
\* MarketEvent, WatchMarketRequest, WatchMarketResponse).
VARIABLES
    log,           \* the market's events in append order
    watch,         \* the WatchMarket call: its phase, the request's sequence, the
                   \* log's length when the call arrived, the last sequence sent
    responses      \* the WatchMarketResponse messages sent on the stream, in order

market == << log, watch, responses >>

NoWatch == [phase |-> "idle", sequence |-> 0, existing |-> 0, cursor |-> 0]

MarketInit ==
    /\ log = << >>
    /\ watch = NoWatch
    /\ responses = << >>

\* A step of the order and fill handlers leaves the message queue and the
\* market log alone.
onlyLifecycle == UNCHANGED << messaging, market >>

\* constructor(): this._queue = []; this._listeners = []
MessageQueue_constructor ==
    /\ queue = << >>
    /\ listeners = << >>
    /\ promise = [k \in Consumers |-> "none"]
    /\ connected = [k \in Consumers |-> TRUE]
    /\ received = [k \in Consumers |-> << >>]
    /\ delivered = << >>
    /\ dequeued = << >>

\* ------------------------------------------------------------ handler locals
NoCall == [ op |-> "none", pc |-> "idle", id |-> "none",
            feeRefundPaymentRequest |-> RefundRequest("FEE"),
            depositRefundPaymentRequest |-> RefundRequest("DEPOSIT"),
            order |-> "none",
            feeInvoicePaid |-> FALSE, depositInvoicePaid |-> FALSE,
            feeValue |-> 0, feeRefundValue |-> 0,
            depositValue |-> 0, depositRefundValue |-> 0,
            balances |-> << >>,
            feeRefundInvoice |-> 0, depositRefundInvoice |-> 0,
            feePreimage |-> NoPreimage, depositPreimage |-> NoPreimage,
            \* history: has this request stored a record; the refunds it has paid
            wrote |-> FALSE, paid |-> {} ]

\* A handler that returns or throws frees its slot; what is left of the request
\* is its response, the output of that step.
NoResponse == [op |-> "none", id |-> "none", result |-> "none"]

Respond(c, result) ==
    /\ call' = [call EXCEPT ![c] = NoCall]
    /\ response' = [op |-> call[c].op, id |-> call[c].id, result |-> result]

Throw(c, error) == Respond(c, error)
Return(c) == Respond(c, "ok")
\* The handler goes on with these locals.
Continue(c, locals) == call' = [call EXCEPT ![c] = locals] /\ response' = NoResponse
Goto(c, pc) == Continue(c, [call[c] EXCEPT !.pc = pc])

\* A request is taken by the first free slot.
Free(c) == call[c].pc = "idle"
Takes(c) == Free(c) /\ \A d \in Calls : Free(d) => ~(d < c)

At(c, op, pc) == call[c].op = op /\ call[c].pc = pc

\* Requests that have stored their refund invoices, and those in flight that
\* may still do so.
RECURSIVE Stored(_)
Stored(owners) ==
    IF owners = {} THEN 0
    ELSE LET o == CHOOSE x \in owners : TRUE
         IN Len(refunds[<< o, "FEE" >>]) + Stored(owners \ {o})

Admitted == Stored(Owners) + Cardinality({c \in Calls : ~Free(c) /\ ~call[c].wrote})

\* Model.findOne({ foreignId }): the first refund invoice stored for that owner
\* and purpose.
findOneRefund(owner, purpose) == 1

\* Model.create(doc): a new refund invoice record, without preimage.
RefundInvoice(paymentRequest) == [paymentRequest |-> paymentRequest, preimage |-> NoPreimage]

createRefund(stored, owner, purpose, paymentRequest) ==
    [stored EXCEPT ![<< owner, purpose >>] = Append(@, RefundInvoice(paymentRequest))]

\* What the engine may answer to a query the handler makes together with or
\* after others: once an earlier answer fails its check the later answers are
\* never looked at, and only one of them is enumerated.
Answers(earlierPass, all, one) == IF earlierPass THEN all ELSE {one}

emit(type, o) == events' = [events EXCEPT ![<< type, o >>] = @ + 1]

Init ==
    /\ orderStatus = [o \in Orders |-> "CREATED"]
    /\ fillStatus = [f \in Fills |-> "NONE"]
    \* CreateOrder issues both incoming invoices; a record may be missing
    \* (the operational fault placeOrder checks for).
    /\ \E lost \in SUBSET (Orders \X Purposes) :
          /\ Cardinality(lost) <= 1
          /\ invoices = (Orders \X Purposes) \ lost
    /\ refunds = [k \in Owners \X Purposes |-> << >>]
    /\ pendingSaves = {}
    /\ payments = [k \in Owners \X Purposes |-> 0]
    /\ events = [k \in EventTypes \X Orders |-> 0]
    /\ messenger = [o \in Orders |-> "none"]
    /\ call = [c \in Calls |-> NoCall]
    /\ response = NoResponse
    /\ MessageQueue_constructor
    /\ MarketInit

\* ------------------------------------------------------------ placeOrder
\* A PlaceOrder request arrives: params = {orderId, feeRefundPaymentRequest,
\* depositRefundPaymentRequest}.
placeOrder_call(c) ==
    /\ Takes(c)
    /\ Admitted < MaxCalls
    /\ \E o \in Orders :
          Continue(c, [NoCall EXCEPT !.op = "place", !.pc = "findOrder", !.id = o])
    /\ UNCHANGED persisted
    /\ onlyLifecycle

\* const order = await Order.findOne({ orderId })
placeOrder_findOrder(c) ==
    /\ At(c, "place", "findOrder")
    /\ Continue(c, [call[c] EXCEPT !.order = orderStatus[call[c].id],
                                   !.pc = "preconditions"])
    /\ UNCHANGED persisted
    /\ onlyLifecycle

\* if (!feeInvoice || !depositInvoice)
placeOrder_invoicesFound(o) ==
    << o, "FEE" >> \in invoices /\ << o, "DEPOSIT" >> \in invoices

\* placeOrder's checks without the one of lines 61-67 (deposit invoice paid).
placeOrder_error_depositUnchecked(found, feeInvoicePaid, depositInvoicePaid, outbound, inbound, feeValue, feeRefundValue, depositValue, depositRefundValue) ==
    IF ~found THEN "NOT_PLACED"
    ELSE IF ~feeInvoicePaid THEN "FEE_NOT_PAID"
    ELSE IF ~outbound THEN "INSUFFICIENT_FUNDS_OUTBOUND"
    ELSE IF ~inbound THEN "INSUFFICIENT_FUNDS_INBOUND"
    ELSE IF feeValue # feeRefundValue THEN "FEE_VALUES_UNEQUAL"
    ELSE IF depositValue # depositRefundValue THEN "DEPOSIT_VALUES_UNEQUAL"
    ELSE "ok"

\* The checks of placeOrder in the order the handler makes them; the error of
\* the first that fails ("ok": none fails).
placeOrder_error(found, feeInvoicePaid, depositInvoicePaid, outbound, inbound, feeValue, feeRefundValue, depositValue, depositRefundValue) ==
    IF ~found THEN "NOT_PLACED"
    ELSE IF ~feeInvoicePaid THEN "FEE_NOT_PAID"
    ELSE IF ~depositInvoicePaid THEN "DEPOSIT_NOT_PAID"
    ELSE IF ~outbound THEN "INSUFFICIENT_FUNDS_OUTBOUND"
    ELSE IF ~inbound THEN "INSUFFICIENT_FUNDS_INBOUND"
    ELSE IF feeValue # feeRefundValue THEN "FEE_VALUES_UNEQUAL"
    ELSE IF depositValue # depositRefundValue THEN "DEPOSIT_VALUES_UNEQUAL"
    ELSE "ok"

\* The invoice lookup and the engine's answers: isInvoicePaid (fee, deposit),
\* isBalanceSufficient (outbound, inbound), getInvoiceValue (the two refund
\* requests).
placeOrder_preconditions(c) ==
    /\ At(c, "place", "preconditions")
    /\ \E feeInvoicePaid \in BOOLEAN :
       \E depositInvoicePaid \in Answers(feeInvoicePaid, BOOLEAN, TRUE) :
       \E outbound \in Answers(depositInvoicePaid, BOOLEAN, TRUE) :
       \E inbound \in Answers(outbound, BOOLEAN, TRUE) :
       \E feeRefundValue \in Answers(inbound, Values, InvoiceValue("FEE")) :
       \E depositRefundValue \in Answers(feeRefundValue = InvoiceValue("FEE"),
                                         Values, InvoiceValue("DEPOSIT")) :
          LET error == placeOrder_error(placeOrder_invoicesFound(call[c].id),
                                        feeInvoicePaid, depositInvoicePaid,
                                        outbound, inbound,
                                        InvoiceValue("FEE"), feeRefundValue,
                                        InvoiceValue("DEPOSIT"), depositRefundValue)
          IN IF error = "ok"
                THEN Continue(c, [call[c] EXCEPT
                                     !.feeInvoicePaid = feeInvoicePaid,
                                     !.depositInvoicePaid = depositInvoicePaid,
                                     !.balances = << outbound, inbound >>,
                                     !.feeValue = InvoiceValue("FEE"),
                                     !.feeRefundValue = feeRefundValue,
                                     !.depositValue = InvoiceValue("DEPOSIT"),
                                     !.depositRefundValue = depositRefundValue,
                                     !.pc = "createRefundInvoices"])
                ELSE Throw(c, error)
    /\ UNCHANGED persisted
    /\ onlyLifecycle

\* await Promise.all([FeeRefundInvoice.create(..), DepositRefundInvoice.create(..)])
placeOrder_createRefundInvoices(c) ==
    /\ At(c, "place", "createRefundInvoices")
    /\ refunds' = createRefund(
                     createRefund(refunds, call[c].id, "FEE",
                                  call[c].feeRefundPaymentRequest),
                     call[c].id, "DEPOSIT", call[c].depositRefundPaymentRequest)
    /\ Continue(c, [call[c] EXCEPT !.wrote = TRUE, !.pc = "status"])
    /\ UNCHANGED << orderStatus, fillStatus, invoices, pendingSaves, payments, events,
                    messenger >>
    /\ onlyLifecycle

\* if (order.status === Order.STATUSES.CANCELLED), on the order loaded at the start
placeOrder_isCancelled(c) == call[c].order = "CANCELLED"

\* The cancelled branch: look the order's refund invoices up.
placeOrder_findRefundInvoices(c) ==
    /\ At(c, "place", "status")
    /\ placeOrder_isCancelled(c)
    /\ LET fee == findOneRefund(call[c].id, "FEE")
           deposit == findOneRefund(call[c].id, "DEPOSIT") IN
       Continue(c, [call[c] EXCEPT
                       !.feeRefundInvoice = fee,
                       !.depositRefundInvoice = deposit,
                       !.feePreimage = refunds[<< call[c].id, "FEE" >>][fee].preimage,
                       !.depositPreimage =
                           refunds[<< call[c].id, "DEPOSIT" >>][deposit].preimage,
                       !.pc = "refundFee"])
    /\ UNCHANGED persisted
    /\ onlyLifecycle

\* The cancelled branch without its preimage test: every refund is paid.
placeOrder_needsRefund_always(preimage) == TRUE

\* if (!refundInvoice.preimage): on the invoice document as loaded
placeOrder_needsRefund(preimage) == preimage = NoPreimage

\* Pay one refund invoice, set the preimage on the document and save() it
\* without awaiting the save.
placeOrder_paid(c, purpose, preimage) ==
    IF placeOrder_needsRefund(preimage) THEN call[c].paid \cup {purpose} ELSE call[c].paid

placeOrder_refund(c, purpose, i, preimage) ==
    /\ IF placeOrder_needsRefund(preimage)
          THEN /\ payments' = [payments EXCEPT ![<< call[c].id, purpose >>] = @ + 1]
               /\ pendingSaves' = pendingSaves \cup
                     {<< call[c].id, purpose, i,
                         payInvoice(refunds[<< call[c].id, purpose >>][i].paymentRequest) >>}
          ELSE UNCHANGED << payments, pendingSaves >>
    /\ UNCHANGED << orderStatus, fillStatus, invoices, refunds, events, messenger >>

placeOrder_refundFee(c) ==
    /\ At(c, "place", "refundFee")
    /\ placeOrder_refund(c, "FEE", call[c].feeRefundInvoice, call[c].feePreimage)
    /\ Continue(c, [call[c] EXCEPT !.paid = placeOrder_paid(c, "FEE", call[c].feePreimage),
                                   !.pc = "refundDeposit"])
    /\ onlyLifecycle

\* ... and return {}
placeOrder_refundDeposit(c) ==
    /\ At(c, "place", "refundDeposit")
    /\ placeOrder_refund(c, "DEPOSIT", call[c].depositRefundInvoice,
                         call[c].depositPreimage)
    /\ Return(c)
    /\ onlyLifecycle

\* order.place(): the order document is saved with status PLACED.
Order_place(o) == orderStatus' = [orderStatus EXCEPT ![o] = "PLACED"]

\* await order.place()
placeOrder_place(c) ==
    /\ At(c, "place", "status")
    /\ ~placeOrder_isCancelled(c)
    /\ Order_place(call[c].id)
    /\ Goto(c, "emit")
    /\ UNCHANGED << fillStatus, invoices, refunds, pendingSaves, payments, events,
                    messenger >>
    /\ onlyLifecycle

\* eventHandler.emit('order:placed', order); return new EmptyResponse({})
placeOrder_emit(c) ==
    /\ At(c, "place", "emit")
    /\ emit("PLACED", call[c].id)
    /\ Return(c)
    /\ UNCHANGED << orderStatus, fillStatus, invoices, refunds, pendingSaves, payments,
                    messenger >>
    /\ onlyLifecycle

\* A save() issued by placeOrder reaches the store.
saveLands ==
    \E s \in pendingSaves :
        /\ refunds' = [refunds EXCEPT ![<< s[1], s[2] >>][s[3]].preimage = s[4]]
        /\ pendingSaves' = pendingSaves \ {s}
        /\ response' = NoResponse
        /\ UNCHANGED << orderStatus, fillStatus, invoices, payments, events, messenger,
                        call >>
        /\ onlyLifecycle

\* ------------------------------------------------------------ fillOrder
\* A FillOrder request arrives: params = {fillId, feeRefundPaymentRequest,
\* depositRefundPaymentRequest}.
fillOrder_call(c) ==
    /\ Takes(c)
    /\ Admitted < MaxCalls
    /\ \E f \in Fills :
          Continue(c, [NoCall EXCEPT !.op = "fill", !.pc = "findFill", !.id = f])
    /\ UNCHANGED persisted
    /\ onlyLifecycle

\* const fill = await Fill.findOne({ fillId }); if (!fill) throw
fillOrder_findFill(c) ==
    /\ At(c, "fill", "findFill")
    /\ IF fillStatus[call[c].id] = "NONE"
          THEN Throw(c, "NO_FILL")
          ELSE Goto(c, "findOrder")
    /\ UNCHANGED persisted
    /\ onlyLifecycle

\* const order = await Order.findOne({ _id: fill.order_id })
fillOrder_findOrder(c) ==
    /\ At(c, "fill", "findOrder")
    /\ Continue(c, [call[c] EXCEPT !.order = orderStatus[order_id(call[c].id)],
                                   !.pc = "preconditions"])
    /\ UNCHANGED persisted
    /\ onlyLifecycle

\* The checks of fillOrder before it stores the refund invoices, in the order
\* the handler makes them; the error of the first that fails ("ok": none).
fillOrder_error(feeFound, depositFound, feeInvoicePaid, depositInvoicePaid, feeValue, feeRefundValue, depositValue, depositRefundValue) ==
    IF ~feeFound THEN "NO_FEE_INVOICE"
    ELSE IF ~depositFound THEN "NO_DEPOSIT_INVOICE"
    ELSE IF ~feeInvoicePaid THEN "FEE_NOT_PAID"
    ELSE IF ~depositInvoicePaid THEN "DEPOSIT_NOT_PAID"
    ELSE IF feeValue # feeRefundValue THEN "FEE_VALUES_UNEQUAL"
    ELSE IF depositValue # depositRefundValue THEN "DEPOSIT_VALUES_UNEQUAL"
    ELSE "ok"

\* invoicesForFill and the engine's answers: isInvoicePaid (fee, deposit),
\* getInvoiceValue (the two refund requests).
fillOrder_preconditions(c) ==
    /\ At(c, "fill", "preconditions")
    /\ \E feeInvoicePaid \in BOOLEAN :
       \E depositInvoicePaid \in Answers(feeInvoicePaid, BOOLEAN, TRUE) :
       \E feeRefundValue \in Answers(depositInvoicePaid, Values, InvoiceValue("FEE")) :
       \E depositRefundValue \in Answers(feeRefundValue = InvoiceValue("FEE"),
                                         Values, InvoiceValue("DEPOSIT")) :
          LET error == fillOrder_error(<< call[c].id, "FEE" >> \in invoices,
                                       << call[c].id, "DEPOSIT" >> \in invoices,
                                       feeInvoicePaid, depositInvoicePaid,
                                       InvoiceValue("FEE"), feeRefundValue,
                                       InvoiceValue("DEPOSIT"), depositRefundValue)
          IN IF error = "ok"
                THEN Continue(c, [call[c] EXCEPT
                                     !.feeInvoicePaid = feeInvoicePaid,
                                     !.depositInvoicePaid = depositInvoicePaid,
                                     !.feeValue = InvoiceValue("FEE"),
                                     !.feeRefundValue = feeRefundValue,
                                     !.depositValue = InvoiceValue("DEPOSIT"),
                                     !.depositRefundValue = depositRefundValue,
                                     !.pc = "createRefundInvoices"])
                ELSE Throw(c, error)
    /\ UNCHANGED persisted
    /\ onlyLifecycle

\* createRefundInvoices(fill._id, ..): the two documents created are kept
fillOrder_createRefundInvoices(c) ==
    /\ At(c, "fill", "createRefundInvoices")
    /\ refunds' = createRefund(
                     createRefund(refunds, call[c].id, "FEE",
                                  call[c].feeRefundPaymentRequest),
                     call[c].id, "DEPOSIT", call[c].depositRefundPaymentRequest)
    /\ Continue(c, [call[c] EXCEPT
                       !.feeRefundInvoice = Len(refunds[<< call[c].id, "FEE" >>]) + 1,
                       !.depositRefundInvoice =
                           Len(refunds[<< call[c].id, "DEPOSIT" >>]) + 1,
                       !.wrote = TRUE,
                       !.pc = "checkChannelBalances"])
    /\ UNCHANGED << orderStatus, fillStatus, invoices, pendingSaves, payments, events,
                    messenger >>
    /\ onlyLifecycle

\* checkChannelBalances without the taker's inbound check (lines 189-192).
checkChannelBalances_takerInboundUnchecked(balances) ==
    IF ~balances[1] THEN "INSUFFICIENT_FUNDS_OUTBOUND"
    ELSE IF ~balances[2] THEN "INSUFFICIENT_FUNDS_INBOUND"
    ELSE IF ~balances[3] THEN "INSUFFICIENT_FUNDS_OUTBOUND"
    ELSE "ok"

\* checkChannelBalances: maker outbound, maker inbound, taker outbound, taker
\* inbound, as the engine reported them; the first insufficient one is thrown.
checkChannelBalances(balances) ==
    IF ~balances[1] THEN "INSUFFICIENT_FUNDS_OUTBOUND"
    ELSE IF ~balances[2] THEN "INSUFFICIENT_FUNDS_INBOUND"
    ELSE IF ~balances[3] THEN "INSUFFICIENT_FUNDS_OUTBOUND"
    ELSE IF ~balances[4] THEN "INSUFFICIENT_FUNDS_INBOUND"
    ELSE "ok"

fillOrder_checkChannelBalances(c) ==
    /\ At(c, "fill", "checkChannelBalances")
    /\ \E outboundMaker \in BOOLEAN :
       \E inboundMaker \in Answers(outboundMaker, BOOLEAN, TRUE) :
       \E outboundTaker \in Answers(inboundMaker, BOOLEAN, TRUE) :
       \E inboundTaker \in Answers(outboundTaker, BOOLEAN, TRUE) :
          LET balances == << outboundMaker, inboundMaker, outboundTaker, inboundTaker >>
              error == checkChannelBalances(balances) IN
          IF error = "ok"
             THEN Continue(c, [call[c] EXCEPT !.balances = balances, !.pc = "status"])
             ELSE Throw(c, error)
    /\ UNCHANGED persisted
    /\ onlyLifecycle

\* The status test narrowed to cancelled orders: a FILLED order passes it.
fillOrder_notPlaced_onlyCancelled(c) == call[c].order = "CANCELLED"

\* order.status !== Order.STATUSES.PLACED, on the order loaded at the start
fillOrder_notPlaced(c) == call[c].order # "PLACED"

\* The not-placed branch: Promise.all of the two payInvoice calls.
fillOrder_payRefunds(c) ==
    /\ At(c, "fill", "status")
    /\ fillOrder_notPlaced(c)
    /\ payments' = [payments EXCEPT ![<< call[c].id, "FEE" >>] = @ + 1,
                                    ![<< call[c].id, "DEPOSIT" >>] = @ + 1]
    /\ Continue(c, [call[c] EXCEPT
                       !.paid = Purposes,
                       !.feePreimage = payInvoice(call[c].feeRefundPaymentRequest),
                       !.depositPreimage = payInvoice(call[c].depositRefundPaymentRequest),
                       !.pc = "markFeeAsPaid"])
    /\ UNCHANGED << orderStatus, fillStatus, invoices, refunds, pendingSaves, events,
                    messenger >>
    /\ onlyLifecycle

\* invoice.markAsPaid(preimage): the preimage is stored on the invoice.
Invoice_markAsPaid(owner, purpose, i, preimage) ==
    refunds' = [refunds EXCEPT ![<< owner, purpose >>][i].preimage = preimage]

\* await feeRefundInvoice.markAsPaid(feePreimage)
fillOrder_markFeeAsPaid(c) ==
    /\ At(c, "fill", "markFeeAsPaid")
    /\ Invoice_markAsPaid(call[c].id, "FEE", call[c].feeRefundInvoice, call[c].feePreimage)
    /\ Goto(c, "markDepositAsPaid")
    /\ UNCHANGED << orderStatus, fillStatus, invoices, pendingSaves, payments, events,
                    messenger >>
    /\ onlyLifecycle

\* await depositRefundInvoice.markAsPaid(depositPreimage); throw ORDER_NOT_PLACED
fillOrder_markDepositAsPaid(c) ==
    /\ At(c, "fill", "markDepositAsPaid")
    /\ Invoice_markAsPaid(call[c].id, "DEPOSIT", call[c].depositRefundInvoice,
                          call[c].depositPreimage)
    /\ Throw(c, "ORDER_NOT_PLACED")
    /\ UNCHANGED << orderStatus, fillStatus, invoices, pendingSaves, payments, events,
                    messenger >>
    /\ onlyLifecycle

\* fill.accept(): the fill document is saved as accepted.
Fill_accept(f) == fillStatus' = [fillStatus EXCEPT ![f] = "ACCEPTED"]

\* order.fill(): the order document is saved with status FILLED.
Order_fill(o) == orderStatus' = [orderStatus EXCEPT ![o] = "FILLED"]

\* await fill.accept()
fillOrder_accept(c) ==
    /\ At(c, "fill", "status")
    /\ ~fillOrder_notPlaced(c)
    /\ Fill_accept(call[c].id)
    /\ Goto(c, "orderFill")
    /\ UNCHANGED << orderStatus, invoices, refunds, pendingSaves, payments, events,
                    messenger >>
    /\ onlyLifecycle

\* await order.fill()
fillOrder_orderFill(c) ==
    /\ At(c, "fill", "orderFill")
    /\ Order_fill(order_id(call[c].id))
    /\ Goto(c, "messengerSet")
    /\ UNCHANGED << fillStatus, invoices, refunds, pendingSaves, payments, events,
                    messenger >>
    /\ onlyLifecycle

\* await messenger.set(`fill:${order._id}`, fill.fillId); return {}
fillOrder_messengerSet(c) ==
    /\ At(c, "fill", "messengerSet")
    /\ messenger' = [messenger EXCEPT ![order_id(call[c].id)] = call[c].id]
    /\ Return(c)
    /\ UNCHANGED << orderStatus, fillStatus, invoices, refunds, pendingSaves, payments,
                    events >>
    /\ onlyLifecycle

\* ------------------------------------------------------------ other requests
\* CreateFill: reserves a fill of a PLACED order and issues its two invoices.
createFill(f) ==
    /\ fillStatus[f] = "NONE"
    /\ orderStatus[order_id(f)] = "PLACED"
    /\ fillStatus' = [fillStatus EXCEPT ![f] = "CREATED"]
    /\ invoices' = invoices \cup ({f} \X Purposes)
    /\ response' = NoResponse
    /\ UNCHANGED << orderStatus, refunds, pendingSaves, payments, events, messenger,
                    call >>
    /\ onlyLifecycle

\* CancelOrder: legal while CREATED or PLACED with no accepted fill.
cancelOrder(o) ==
    /\ orderStatus[o] \in {"CREATED", "PLACED"}
    /\ \A f \in Fills : order_id(f) = o => fillStatus[f] # "ACCEPTED"
    /\ orderStatus' = [orderStatus EXCEPT ![o] = "CANCELLED"]
    /\ emit("CANCELLED", o)
    /\ response' = NoResponse
    /\ UNCHANGED << fillStatus, invoices, refunds, pendingSaves, payments, messenger,
                    call >>
    /\ onlyLifecycle

\* ------------------------------------------------------------ specification
Next ==
    \/ \E c \in Calls : placeOrder_call(c)
    \/ \E c \in Calls : placeOrder_findOrder(c)
    \/ \E c \in Calls : placeOrder_preconditions(c)
    \/ \E c \in Calls : placeOrder_createRefundInvoices(c)
    \/ \E c \in Calls : placeOrder_findRefundInvoices(c)
    \/ \E c \in Calls : placeOrder_refundFee(c)
    \/ \E c \in Calls : placeOrder_refundDeposit(c)
    \/ \E c \in Calls : placeOrder_place(c)
    \/ \E c \in Calls : placeOrder_emit(c)
    \/ saveLands
    \/ \E c \in Calls : fillOrder_call(c)
    \/ \E c \in Calls : fillOrder_findFill(c)
    \/ \E c \in Calls : fillOrder_findOrder(c)
    \/ \E c \in Calls : fillOrder_preconditions(c)
    \/ \E c \in Calls : fillOrder_createRefundInvoices(c)
    \/ \E c \in Calls : fillOrder_checkChannelBalances(c)
    \/ \E c \in Calls : fillOrder_payRefunds(c)
    \/ \E c \in Calls : fillOrder_markFeeAsPaid(c)
    \/ \E c \in Calls : fillOrder_markDepositAsPaid(c)
    \/ \E c \in Calls : fillOrder_accept(c)
    \/ \E c \in Calls : fillOrder_orderFill(c)
    \/ \E c \in Calls : fillOrder_messengerSet(c)
    \/ \E f \in Fills : createFill(f)
    \/ \E o \in Orders : cancelOrder(o)

Spec == Init /\ [][Next]_vars

\* ------------------------------------------------------------ MessageQueue
\* A queue whose length test never sees an item: next() always waits.
hasItems_never(q) == FALSE

\* this._queue.length
hasItems(q) == Len(q) > 0

\* A shift() that leaves the head in place.
shift_kept(q) == q

\* this._queue.shift(): what is left of the queue; dequeue() returns the head.
shift(q) == Tail(q)

waiting(k) == \E i \in 1..Len(listeners) : listeners[i] = k

\* The listener loop cut short: only the first listener is called.
resolveListeners_firstOnly(item) ==
    /\ promise' = [promise EXCEPT ![listeners[1]] = item]
    /\ received' = [received EXCEPT ![listeners[1]] =
                      IF connected[listeners[1]]
                         THEN Append(@, << item, "enqueue" >>) ELSE @]

\* listener(item) for every listener: each pending promise resolves with item.
\* A consumer that has gone away does not see it.
resolveListeners(item) ==
    /\ promise' = [k \in Consumers |-> IF waiting(k) THEN item ELSE promise[k]]
    /\ received' = [k \in Consumers |->
                      IF waiting(k) /\ connected[k]
                         THEN Append(received[k], << item, "enqueue" >>)
                         ELSE received[k]]

\* enqueue(item): push the item and emit 'enqueue'; the listener registered by
\* the constructor runs at once: with listeners waiting it dequeues one item and
\* hands it to every one of them.
enqueue(item) ==
    /\ Len(delivered) < MaxEnqueued
    /\ delivered' = Append(delivered, item)
    /\ LET pushed == Append(queue, item) IN
       IF Len(listeners) > 0
          THEN /\ queue' = shift(pushed)
               /\ dequeued' = Append(dequeued, << Head(pushed), "enqueue" >>)
               /\ resolveListeners(Head(pushed))
               /\ listeners' = << >>
          ELSE /\ queue' = pushed
               /\ UNCHANGED << listeners, promise, received, dequeued >>
    /\ UNCHANGED connected
    /\ UNCHANGED << vars, market >>

\* next(): a promise that resolves at once with dequeue() when the queue holds
\* an item, and otherwise when a later enqueue calls its resolve.
next(k) ==
    /\ connected[k]
    /\ promise[k] # "pending"
    /\ IF hasItems(queue)
          THEN /\ promise' = [promise EXCEPT ![k] = Head(queue)]
               /\ received' = [received EXCEPT ![k] = Append(@, << Head(queue), "next" >>)]
               /\ queue' = shift(queue)
               /\ dequeued' = Append(dequeued, << Head(queue), "next" >>)
               /\ UNCHANGED listeners
          ELSE /\ listeners' = Append(listeners, k)
               /\ promise' = [promise EXCEPT ![k] = "pending"]
               /\ UNCHANGED << queue, received, dequeued >>
    /\ UNCHANGED << connected, delivered >>
    /\ UNCHANGED << vars, market >>

\* A consumer waiting on next() goes away.  The queue offers no way to take
\* its listener out ("TODO: a way for listeners to take themselves out").
disconnect(k) ==
    /\ connected[k]
    /\ promise[k] = "pending"
    /\ connected' = [connected EXCEPT ![k] = FALSE]
    /\ UNCHANGED << queue, listeners, promise, received, delivered, dequeued >>
    /\ UNCHANGED << vars, market >>

\* dequeue() called on the queue directly: the head is shifted off, emitted
\* with 'dequeue' and returned to the caller; on an empty queue shift() gives
\* undefined and nothing changes.
dequeue ==
    /\ IF queue = << >>
          THEN UNCHANGED << queue, dequeued >>
          ELSE /\ queue' = shift(queue)
               /\ dequeued' = Append(dequeued, << Head(queue), "dequeue" >>)
    /\ UNCHANGED << listeners, promise, connected, received, delivered >>
    /\ UNCHANGED << vars, market >>

MessageQueueNext ==
    \/ \E item \in Items : enqueue(item)
    \/ \E k \in Consumers : next(k)
    \/ \E k \in Consumers : disconnect(k)
    \/ dequeue

MessageQueueSpec == Init /\ [][MessageQueueNext]_messaging

\* ------------------------------------------------------------ market event log
\* MarketEvent: the event with its sequence number in the market.
MarketEvent(sequence, event_type) == [sequence |-> sequence, event_type |-> event_type]

WatchMarketResponse(type, market_event) == [type |-> type, market_event |-> market_event]

\* append(market, event): the event gets the market's next sequence number.
append(event_type) ==
    /\ Len(log) < MaxEvents
    /\ log' = Append(log, MarketEvent(Len(log) + 1, event_type))
    /\ UNCHANGED << watch, responses >>
    /\ UNCHANGED << vars, messaging >>

\* WatchMarket(sequence): the call arrives, asking for the events after a
\* sequence it has seen; the events the log holds now are the existing ones.
WatchMarket(sequence) ==
    /\ watch.phase = "idle"
    /\ sequence <= Len(log)
    /\ watch' = [phase |-> "replay", sequence |-> sequence, existing |-> Len(log),
                 cursor |-> sequence]
    /\ UNCHANGED << log, responses >>
    /\ UNCHANGED << vars, messaging >>

\* The next existing event after the request's sequence is sent.
WatchMarket_existingEvent ==
    /\ watch.phase = "replay"
    /\ watch.cursor < watch.existing
    /\ responses' = Append(responses,
                           WatchMarketResponse("EXISTING_EVENT", log[watch.cursor + 1]))
    /\ watch' = [watch EXCEPT !.cursor = @ + 1]
    /\ UNCHANGED log
    /\ UNCHANGED << vars, messaging >>

\* A live stream that starts at the end of the log as it is when the replay ends.
liveFrom_endOfLog(w) == Len(log)

\* The live part of the stream starts after the last existing event.
liveFrom(w) == w.existing

\* All existing events are sent: the boundary marker.
WatchMarket_existingEventsDone ==
    /\ watch.phase = "replay"
    /\ watch.cursor = watch.existing
    /\ responses' = Append(responses,
                           WatchMarketResponse("EXISTING_EVENTS_DONE", MarketEvent(0, "none")))
    /\ watch' = [watch EXCEPT !.phase = "live", !.cursor = liveFrom(watch)]
    /\ UNCHANGED log
    /\ UNCHANGED << vars, messaging >>

\* An event appended since is sent as it comes.
WatchMarket_newEvent ==
    /\ watch.phase = "live"
    /\ watch.cursor < Len(log)
    /\ responses' = Append(responses,
                           WatchMarketResponse("NEW_EVENT", log[watch.cursor + 1]))
    /\ watch' = [watch EXCEPT !.cursor = @ + 1]
    /\ UNCHANGED log
    /\ UNCHANGED << vars, messaging >>

MarketNext ==
    \/ \E event_type \in EventTypes : append(event_type)
    \/ \E sequence \in 0..MaxEvents : WatchMarket(sequence)
    \/ WatchMarket_existingEvent
    \/ WatchMarket_existingEventsDone
    \/ WatchMarket_newEvent

MarketSpec == Init /\ [][MarketNext]_market

\* ------------------------------------------------------------ properties
\* The steps of request c that the properties are about.
Steps(c) == call'[c] # call[c]
Ends(c) == call[c].pc # "idle" /\ call'[c].pc = "idle"
AcceptedFills(o) == {f \in Fills : order_id(f) = o /\ fillStatus[f] = "ACCEPTED"}

\* C1: in every reachable state at most one fill per order is accepted (of the
\* FillOrder calls racing for a PLACED order exactly one accepts its fill).
C1_AtMostOneAcceptedFill ==
    \A o \in Orders : Cardinality(AcceptedFills(o)) <= 1

\* C2: a FillOrder call that passed its checks and found the order not PLACED
\* pays both of its refund requests, then marks its two refund invoices with
\* the returned preimages and fails with ORDER_NOT_PLACED; none of its steps
\* changes a fill's or an order's status.
C2_NotPlacedFillIsRefunded ==
    [][\A c \in Calls :
          ( /\ call[c].op = "fill"
            /\ call[c].pc \in {"status", "markFeeAsPaid", "markDepositAsPaid"}
            /\ call[c].order # "PLACED"
            /\ Steps(c) )
          => LET f == call[c].id IN
             /\ fillStatus' = fillStatus
             /\ orderStatus' = orderStatus
             /\ call[c].pc = "status" =>
                   /\ payments'[<< f, "FEE" >>] = payments[<< f, "FEE" >>] + 1
                   /\ payments'[<< f, "DEPOSIT" >>] = payments[<< f, "DEPOSIT" >>] + 1
                   /\ call'[c].paid = Purposes
             /\ Ends(c) <=> call[c].pc = "markDepositAsPaid"
             /\ Ends(c) =>
                   /\ response' = [op |-> "fill", id |-> f, result |-> "ORDER_NOT_PLACED"]
                   /\ call[c].paid = Purposes
                   /\ refunds'[<< f, "FEE" >>][call[c].feeRefundInvoice].preimage
                         = payInvoice(call[c].feeRefundPaymentRequest)
                   /\ refunds'[<< f, "DEPOSIT" >>][call[c].depositRefundInvoice].preimage
                         = payInvoice(call[c].depositRefundPaymentRequest)
      ]_vars

\* C2's case: a FillOrder call has just failed with ORDER_NOT_PLACED after both
\* refunds of its fill were paid and marked.
C2_Witness ==
    /\ response.op = "fill"
    /\ response.result = "ORDER_NOT_PLACED"
    /\ payments[<< response.id, "FEE" >>] = 1
    /\ payments[<< response.id, "DEPOSIT" >>] = 1
    /\ \E i \in 1..Len(refunds[<< response.id, "DEPOSIT" >>]) :
          refunds[<< response.id, "DEPOSIT" >>][i].preimage # NoPreimage

\* C3: an order that is CANCELLED never has an accepted fill (FillOrder accepts
\* on the stored status at the moment it claims the order).
C3_CancelledOrderHasNoAcceptedFill ==
    \A o \in Orders : orderStatus[o] = "CANCELLED" => AcceptedFills(o) = {}

\* The step in which request c executes order.place() / fill.accept().
Placing(c) == At(c, "place", "status") /\ call'[c].pc = "emit"
Accepting(c) == At(c, "fill", "status") /\ call'[c].pc = "orderFill"

\* C4: an order's status becomes PLACED only in the order.place() step of a
\* PlaceOrder call for it, and a call takes that step only after the engine
\* reported both incoming invoices paid in that call and reported each refund
\* request's value equal to the value of its incoming invoice.
C4_PlacedOnlyWhenPaidAndEqual ==
    [][/\ \A o \in Orders :
             (orderStatus[o] # "PLACED" /\ orderStatus'[o] = "PLACED")
             => \E c \in Calls : Placing(c) /\ call[c].id = o
       /\ \A c \in Calls :
             Placing(c) =>
                /\ orderStatus'[call[c].id] = "PLACED"
                /\ call[c].feeInvoicePaid
                /\ call[c].depositInvoicePaid
                /\ call[c].feeRefundValue = InvoiceValue("FEE")
                /\ call[c].depositRefundValue = InvoiceValue("DEPOSIT")
      ]_vars

\* C4's case: a PlaceOrder call has just stored the status PLACED.
C4_Witness ==
    \E c \in Calls : At(c, "place", "emit") /\ orderStatus[call[c].id] = "PLACED"

\* C5: every change of an order's status follows CREATED->PLACED,
\* PLACED->FILLED, CREATED->CANCELLED or PLACED->CANCELLED.
StatusEdges ==
    { << "CREATED", "PLACED" >>, << "PLACED", "FILLED" >>,
      << "CREATED", "CANCELLED" >>, << "PLACED", "CANCELLED" >> }

C5_StatusEdges ==
    [][\A o \in Orders :
          orderStatus'[o] # orderStatus[o]
          => << orderStatus[o], orderStatus'[o] >> \in StatusEdges
      ]_vars

\* C6: a fill becomes accepted only in the fill.accept() step of a FillOrder
\* call for it, and a call takes that step only after the engine reported both
\* of the fill's incoming invoices paid, each refund request's value equal to
\* the value of its incoming invoice, and all four channel balances sufficient.
C6_AcceptedOnlyWhenPaidEqualAndFunded ==
    [][/\ \A f \in Fills :
             (fillStatus[f] # "ACCEPTED" /\ fillStatus'[f] = "ACCEPTED")
             => \E c \in Calls : Accepting(c) /\ call[c].id = f
       /\ \A c \in Calls :
             Accepting(c) =>
                /\ fillStatus'[call[c].id] = "ACCEPTED"
                /\ call[c].feeInvoicePaid
                /\ call[c].depositInvoicePaid
                /\ call[c].feeRefundValue = InvoiceValue("FEE")
                /\ call[c].depositRefundValue = InvoiceValue("DEPOSIT")
                /\ call[c].balances = << TRUE, TRUE, TRUE, TRUE >>
      ]_vars

\* C6's case: a FillOrder call has just accepted its fill.
C6_Witness ==
    \E c \in Calls : At(c, "fill", "orderFill") /\ fillStatus[call[c].id] = "ACCEPTED"

\* C7: a PlaceOrder or FillOrder call that fails a precondition (unpaid
\* invoice, insufficient balance, refund value mismatch) has stored nothing.
PreconditionFailures ==
    { "FEE_NOT_PAID", "DEPOSIT_NOT_PAID", "INSUFFICIENT_FUNDS_OUTBOUND",
      "INSUFFICIENT_FUNDS_INBOUND", "FEE_VALUES_UNEQUAL", "DEPOSIT_VALUES_UNEQUAL" }

C7_PreconditionFailureStoresNothing ==
    [][\A c \in Calls :
          (Ends(c) /\ response'.result \in PreconditionFailures)
          => /\ ~call[c].wrote
             /\ persisted' = persisted
      ]_vars

\* C8: when PlaceOrder fails because an invoice record of the order is missing
\* (NOT_PLACED), the order has been cancelled.
C8_MissingInvoiceCancelsOrder ==
    (response.op = "place" /\ response.result = "NOT_PLACED")
    => orderStatus[response.id] = "CANCELLED"

\* C9 as stated: a PlaceOrder call that passed its checks on an order it loaded
\* as CANCELLED returns having paid both the fee and the deposit refund.
C9_CancelledPlacePaysBothRefunds ==
    [][\A c \in Calls :
          (At(c, "place", "refundDeposit") /\ Ends(c))
          => placeOrder_paid(c, "DEPOSIT", call[c].depositPreimage) = Purposes
      ]_vars

\* C9, amended: in the cancelled branch PlaceOrder pays a refund exactly when the
\* order's first stored refund invoice of that kind had no preimage when the
\* call loaded it, and then issues the save of the returned preimage on that
\* invoice; an invoice loaded with a preimage is not paid again.  No step of
\* the branch changes an order's status or emits an event, and the call
\* returns successfully.
C9_CancelledPlacePaysUnpaidRefunds ==
    [][\A c \in Calls : \A purpose \in Purposes :
          LET o == call[c].id
              pc == IF purpose = "FEE" THEN "refundFee" ELSE "refundDeposit"
              i == IF purpose = "FEE" THEN call[c].feeRefundInvoice
                                      ELSE call[c].depositRefundInvoice
              loaded == IF purpose = "FEE" THEN call[c].feePreimage
                                           ELSE call[c].depositPreimage
              save == << o, purpose, i,
                         payInvoice(refunds[<< o, purpose >>][i].paymentRequest) >>
          IN (At(c, "place", pc) /\ Steps(c)) =>
                /\ call[c].order = "CANCELLED"
                /\ i = 1
                /\ orderStatus' = orderStatus
                /\ events' = events
                /\ IF loaded = NoPreimage
                      THEN /\ payments' = [payments EXCEPT ![<< o, purpose >>] = @ + 1]
                           /\ pendingSaves' = pendingSaves \cup {save}
                      ELSE /\ payments' = payments
                           /\ pendingSaves' = pendingSaves
                /\ purpose = "DEPOSIT" =>
                      response' = [op |-> "place", id |-> o, result |-> "ok"]
      ]_vars

\* C9's case: a PlaceOrder call on a cancelled order whose fee refund an earlier
\* call had paid and marked has passed the fee refund without paying it.
C9_Witness ==
    \E c \in Calls :
        /\ At(c, "place", "refundDeposit")
        /\ call[c].feePreimage # NoPreimage
        /\ call[c].paid = {}
        /\ payments[<< call[c].id, "FEE" >>] = 1
        /\ orderStatus[call[c].id] = "CANCELLED"

\* C10: a FillOrder call that has succeeded has appended a FILLED market event
\* for the fill's order, and an order has no more FILLED events than accepted
\* fills (a failing call appends none).
C10_SuccessfulFillEmitsFilled ==
    /\ (response.op = "fill" /\ response.result = "ok")
       => events[<< "FILLED", order_id(response.id) >>] >= 1
    /\ \A o \in Orders : events[<< "FILLED", o >>] <= Cardinality(AcceptedFills(o))

\* C11: a PlaceOrder call that placed its order stays open until a fill of the
\* order has been accepted and its id delivered for the order: it completes
\* only after the fill message.
C11_PlacedStreamStaysOpenUntilFill ==
    [][\A c \in Calls :
          (At(c, "place", "emit") /\ Ends(c))
          => /\ messenger[call[c].id] # "none"
             /\ AcceptedFills(call[c].id) # {}
      ]_vars

\* The steps of the message queue: an enqueue call, a next() call of consumer k.
Enqueues == delivered' # delivered
Awaits(k) ==
    /\ delivered' = delivered
    /\ promise[k] # "pending"
    /\ received'[k] # received[k] \/ promise'[k] = "pending"

C13_ItemStaysRetrievable ==
    \A k \in Consumers :
        (Len(delivered) = 1 /\ received[k] # << >>) => promise[k] = delivered[1]

\* C13, amended: a next() issued while the queue holds an item resolves with
\* the head of the queue and removes it; a next() issued on an empty queue
\* stays pending, and a pending promise stays pending until a further enqueue.
C13_NextConsumesTheItem ==
    [][\A k \in Consumers :
          /\ Awaits(k) =>
                IF queue # << >>
                   THEN /\ promise'[k] = Head(queue)
                        /\ queue' = Tail(queue)
                   ELSE /\ promise'[k] = "pending"
                        /\ queue' = queue
          /\ (promise[k] = "pending" /\ ~Enqueues) => promise'[k] = "pending"
      ]_messaging

\* C13's case: after the single enqueue the consumer's first next() took the
\* item and its second next() is waiting.
C13_Witness ==
    \E k \in Consumers :
        /\ Len(delivered) = 1
        /\ received[k] = << << delivered[1], "next" >> >>
        /\ promise[k] = "pending"
        /\ connected[k]
        /\ queue = << >>

\* The items the consumers have received, counted over all consumers.
RECURSIVE Received(_)
Received(ks) ==
    IF ks = {} THEN 0
    ELSE LET k == CHOOSE x \in ks : TRUE IN Len(received[k]) + Received(ks \ {k})

\* The items taken off the queue by direct dequeue() calls.
Taken == Cardinality({i \in 1..Len(dequeued) : dequeued[i][2] = "dequeue"})

\* C14: no delivered item is lost to a consumer that went away while waiting:
\* every item enqueued is still in the queue, has been received by a consumer
\* that was there, or was taken by a direct dequeue().
C14_AbandonedWaiterDoesNotConsume ==
    Len(delivered) <= Len(queue) + Received(Consumers) + Taken

\* C15: the fill is marked accepted and its order claimed in one step: in no
\* state is a fill accepted while its order is still PLACED.
C15_AcceptAndClaimAreOneStep ==
    \A f \in Fills :
        fillStatus[f] = "ACCEPTED" => orderStatus[order_id(f)] # "PLACED"

\* C17: each order and each fill owns at most one fee refund invoice and at
\* most one deposit refund invoice.
C17_OneRefundInvoicePerOwner ==
    \A owner \in Owners : \A purpose \in Purposes :
        Len(refunds[<< owner, purpose >>]) <= 1

\* C18: each order gets at most one PLACED market event.
C18_AtMostOnePlacedEvent ==
    \A o \in Orders : events[<< "PLACED", o >>] <= 1

\* C19: for a fill the relayer executes at most one fee refund payment and at
\* most one deposit refund payment.
C19_FillRefundedAtMostOnce ==
    \A f \in Fills : \A purpose \in Purposes : payments[<< f, purpose >>] <= 1

\* C20: a FillOrder call for a fill that is already accepted pays nothing out.
C20_AcceptedFillIsNotRefunded ==
    [][\A c \in Calls :
          ( /\ call[c].op = "fill"
            /\ Steps(c)
            /\ fillStatus[call[c].id] = "ACCEPTED" )
          => payments' = payments
      ]_vars

\* C16: with k the request's sequence and N the log's length when the call
\* arrived, the stream's responses are, in order: the events k+1..N tagged
\* EXISTING_EVENT, one EXISTING_EVENTS_DONE, then the events N+1, N+2, ..
\* tagged NEW_EVENT; the log's sequence numbers are 1, 2, .. without gaps.
C16_WatchMarketReplayThenLive ==
    LET k == watch.sequence
        N == watch.existing
    IN /\ \A j \in 1..Len(log) : log[j].sequence = j
       /\ Len(responses) <= Len(log) - k + 1
       /\ watch.phase = "replay" => Len(responses) = watch.cursor - k
       /\ watch.phase = "live" => Len(responses) = watch.cursor - k + 1
       /\ \A i \in 1..Len(responses) :
             IF i <= N - k
                THEN responses[i] = WatchMarketResponse("EXISTING_EVENT", log[k + i])
             ELSE IF i = N - k + 1
                THEN responses[i].type = "EXISTING_EVENTS_DONE"
             ELSE responses[i] = WatchMarketResponse("NEW_EVENT", log[k + i - 1])

\* C16's case: a stream that replayed an existing event, sent the marker and
\* then an event appended after the call arrived.
C16_Witness ==
    /\ watch.phase = "live"
    /\ watch.sequence < watch.existing
    /\ watch.existing < Len(log)
    /\ watch.cursor = Len(log)
    /\ responses[1].type = "EXISTING_EVENT"
    /\ responses[Len(responses)].type = "NEW_EVENT"

\* C21: for an order the relayer executes at most one fee refund payment and
\* at most one deposit refund payment, whatever PlaceOrder calls are made on it.
C21_OrderRefundedAtMostOnce ==
    \A o \in Orders : \A purpose \in Purposes : payments[<< o, purpose >>] <= 1

\* C22: the queue of items and the list of waiting listeners are never both
\* non-empty.
C22_ItemsOrListenersNotBoth ==
    queue = << >> \/ listeners = << >>

\* C22's case: items have gone through the queue and a listener waits while
\* the queue is empty, after enqueue, dequeue and next have all run.
C22_Witness ==
    /\ Len(delivered) >= 2
    /\ listeners # << >>
    /\ \E i \in 1..Len(dequeued) : dequeued[i][2] = "next"
    /\ \E i \in 1..Len(dequeued) : dequeued[i][2] = "dequeue"

\* The items dequeue() has returned, in order.
DequeuedItems == [i \in 1..Len(dequeued) |-> dequeued[i][1]]

\* C23: an enqueue made while listeners wait takes exactly the enqueued item
\* off the queue again, resolves every waiting promise with it and leaves no
\* listener registered; a next() that finds an item takes exactly the head of
\* the queue; and the items leave the queue in the order they were enqueued.
C23_BroadcastAndFifo ==
    [][/\ (Enqueues /\ Len(listeners) >= 1) =>
             LET item == delivered'[Len(delivered')] IN
             /\ queue' = queue
             /\ dequeued' = Append(dequeued, << item, "enqueue" >>)
             /\ \A k \in Consumers : waiting(k) => promise'[k] = item
             /\ \A k \in Consumers :
                   (waiting(k) /\ connected[k])
                   => received'[k] = Append(received[k], << item, "enqueue" >>)
             /\ listeners' = << >>
       /\ \A k \in Consumers :
             (Awaits(k) /\ queue # << >>)
             => /\ queue' = Tail(queue)
                /\ dequeued' = Append(dequeued, << Head(queue), "next" >>)
                /\ promise'[k] = Head(queue)
       /\ delivered' = DequeuedItems' \o queue'
      ]_messaging

\* C23's case: one enqueue has resolved the promises of two waiting consumers
\* with the same item.
C23_Witness ==
    /\ Len(delivered) = 1
    /\ dequeued = << << delivered[1], "enqueue" >> >>
    /\ \A k \in Consumers : received[k] = << << delivered[1], "enqueue" >> >>
    /\ listeners = << >>
    /\ queue = << >>

====
